---- MODULE Spec2Model ----
(***************************************************************************)
(* A model of the mini-substrate runtime of src/src/l_mini_substrate.rs:   *)
(* the raw byte store (io_storage), the typed storage layer               *)
(* (StorageValue / StorageMap over the SCALE encoding), the currency       *)
(* module (mint, transfer, transfer_all, reserve, unreserve), the staking  *)
(* module (bond) and the runtime's outer dispatch.                         *)
(*                                                                         *)
(* The state is the byte store.  Every action is one completed call.  A    *)
(* behaviour is a sequence of calls that builds up a store, followed by    *)
(* one observed call, of which the arguments, the store before it and the  *)
(* result are recorded.                                                    *)
(***************************************************************************)
EXTENDS Integers, Sequences, FiniteSets, TLC

VARIABLES
    storage,    \* io_storage::STORAGE : raw key -> raw value
    nCalls,     \* number of calls made before the observed one
    clean,      \* every call so far returned Ok and no Mint was made to an
                \* account that already existed
    observed,   \* TRUE once the call under observation has been made
    pre,        \* the store as it was when the observed call started
    call,       \* the observed call: [op, sender, dest, amount]
    result,     \* how the observed call ended
    returned    \* the Option<Balance> a balance query returned

vars == <<storage, nCalls, clean, observed, pre, call, result, returned>>

----------------------------------------------------------------------------
(* Bounds of the model.                                                    *)

\* The largest value of the Balance type (u64::MAX in MyRuntime), scaled down.
MaxBalance == 10

\* The number of calls a behaviour makes before the observed one.
MaxSetup == 2

----------------------------------------------------------------------------
(* Configuration of MyRuntime.                                             *)

MinimumBalance == 5

Minter == 42

MODULE_ID == "MOD_CURRENCY"

\* The accounts that send and receive: the minter and the tests' alice and bob.
AccountIds == {Minter, 7, 10}

\* The amounts calls are made with: zero, an amount below the floor, the
\* floor and the maximum of the Balance type.
Amounts == {0, 2, MinimumBalance, MaxBalance}

----------------------------------------------------------------------------
(* Option<T> and DispatchResult.                                           *)

None == <<>>

Some(v) == <<v>>

is_some(o) == o # None

unwrap(o) == o[1]

Ok == [tag |-> "Ok", module_id |-> "", reason |-> ""]

\* impl From<Error<T>> for DispatchError
From_Error(e) ==
    IF e \in {"DoesNotExist", "NotAllowed", "InsufficientFunds", "Overflow"}
    THEN [tag |-> "Module", module_id |-> MODULE_ID, reason |-> e]
    ELSE [tag |-> "Other", module_id |-> "", reason |-> "__marker should never be printed"]

Err(e) == From_Error(e)

----------------------------------------------------------------------------
(* The codec: SCALE encoding of u32, u64 and of the AccountBalance struct. *)

\* The little-endian bytes of n, len of them.
RECURSIVE encode_le(_, _)
encode_le(n, len) ==
    IF len = 0 THEN <<>> ELSE <<n % 256>> \o encode_le(n \div 256, len - 1)

RECURSIVE decode_le(_)
decode_le(bytes) ==
    IF bytes = <<>> THEN 0 ELSE Head(bytes) + 256 * decode_le(Tail(bytes))

\* AccountId(u32).encode()
AccountId_encode(k) == encode_le(k, 4)

\* u64::encode / u64::decode: decoding reads 8 bytes and fails on fewer.
Balance_encode(v) == encode_le(v, 8)

Balance_decode(raw) ==
    IF Len(raw) < 8 THEN None ELSE Some(decode_le(SubSeq(raw, 1, 8)))

\* #[derive(Encode, Decode)] struct AccountBalance { free, reserved }
AccountBalance_encode(ab) == Balance_encode(ab.free) \o Balance_encode(ab.reserved)

\* A decode that reads the bytes that are missing as zero.
AccountBalance_decode_zero_padded(raw) ==
    LET padded == raw \o [i \in 1..16 |-> 0]
    IN  Some([free     |-> decode_le(SubSeq(padded, 1, 8)),
              reserved |-> decode_le(SubSeq(padded, 9, 16))])

AccountBalance_decode(raw) ==
    IF Len(raw) < 16 THEN None
    ELSE Some([free     |-> decode_le(SubSeq(raw, 1, 8)),
               reserved |-> decode_le(SubSeq(raw, 9, 16))])

----------------------------------------------------------------------------
(* io_storage: the raw byte store.                                         *)

EmptyStorage == [k \in {} |-> <<>>]

io_get(s, key) == IF key \in DOMAIN s THEN Some(s[key]) ELSE None

\* An insert that keeps the value a key already has.
io_set_if_absent(s, key, value) ==
    [k \in (DOMAIN s) \cup {key} |-> IF k \in DOMAIN s THEN s[k] ELSE value]

io_set(s, key, value) ==
    [k \in (DOMAIN s) \cup {key} |-> IF k = key THEN value ELSE s[k]]

io_clear(s, key) == [k \in (DOMAIN s) \ {key} |-> s[k]]

----------------------------------------------------------------------------
(* The storage items of the currency module.                               *)

\* b"BalancesMap"
BalancesMap_name == <<66, 97, 108, 97, 110, 99, 101, 115, 77, 97, 112>>

\* b"TotalIssuance"
TotalIssuance_name == <<84, 111, 116, 97, 108, 73, 115, 115, 117, 97, 110, 99, 101>>

\* A map key with a `_` between the name and the encoded key.
BalancesMap_raw_storage_key_with_separator(key) ==
    BalancesMap_name \o <<95>> \o AccountId_encode(key)

\* A map key that leaves the key out.
BalancesMap_raw_storage_key_without_key(key) == BalancesMap_name

BalancesMap_raw_storage_key(key) == BalancesMap_name \o AccountId_encode(key)

\* A cell key with a `_` after the name.
TotalIssuance_raw_storage_key_with_separator == TotalIssuance_name \o <<95>>

TotalIssuance_raw_storage_key == TotalIssuance_name

\* A closure |maybe_v| { *maybe_v = new }, as the function it is on the value
\* it is called with.
closure_set(seen, new) == [maybe_v \in {seen} |-> new]

\* StorageMap::get / exists / set / clear / mutate for BalancesMap
BalancesMap_get(s, key) ==
    LET raw == io_get(s, BalancesMap_raw_storage_key(key))
    IN  IF is_some(raw) THEN AccountBalance_decode(unwrap(raw)) ELSE None

BalancesMap_exists(s, key) == is_some(BalancesMap_get(s, key))

BalancesMap_set(s, key, value) ==
    io_set(s, BalancesMap_raw_storage_key(key), AccountBalance_encode(value))

BalancesMap_clear(s, key) == io_clear(s, BalancesMap_raw_storage_key(key))

\* A mutate that writes what the closure leaves but never removes the item.
BalancesMap_mutate_never_clears(s, key, f) ==
    LET storage_value == f[BalancesMap_get(s, key)]
    IN  IF is_some(storage_value)
        THEN BalancesMap_set(s, key, unwrap(storage_value))
        ELSE s

BalancesMap_mutate(s, key, f) ==
    LET storage_value == f[BalancesMap_get(s, key)]
    IN  IF is_some(storage_value)
        THEN BalancesMap_set(s, key, unwrap(storage_value))
        ELSE BalancesMap_clear(s, key)

\* StorageValue::get / exists / set / clear / mutate for TotalIssuance
TotalIssuance_get(s) ==
    LET raw == io_get(s, TotalIssuance_raw_storage_key)
    IN  IF is_some(raw) THEN Balance_decode(unwrap(raw)) ELSE None

TotalIssuance_exists(s) == is_some(TotalIssuance_get(s))

TotalIssuance_set(s, new_value) ==
    io_set(s, TotalIssuance_raw_storage_key, Balance_encode(new_value))

TotalIssuance_clear(s) == io_clear(s, TotalIssuance_raw_storage_key)

TotalIssuance_mutate(s, f) ==
    LET storage_value == f[TotalIssuance_get(s)]
    IN  IF is_some(storage_value)
        THEN TotalIssuance_set(s, unwrap(storage_value))
        ELSE TotalIssuance_clear(s)

----------------------------------------------------------------------------
(* Checked arithmetic of the Balance type.                                 *)

\* A checked_add that wraps around instead of reporting the overflow.
checked_add_wrapping(a, b) == Some((a + b) % (MaxBalance + 1))

checked_add(a, b) == IF a + b > MaxBalance THEN None ELSE Some(a + b)

checked_sub(a, b) == IF a < b THEN None ELSE Some(a - b)

----------------------------------------------------------------------------
(* impl AccountBalance: each operator returns the record as the method     *)
(* leaves it (self) and the method's result (res).                         *)

AccountBalance_reserve(self, amount) ==
    LET leftover == checked_sub(self.free, amount)
    IN  IF is_some(leftover)
           /\ (unwrap(leftover) >= MinimumBalance \/ unwrap(leftover) = 0)
        THEN LET total == checked_add(self.reserved, amount)
             IN  IF is_some(total)
                 THEN [self |-> [free |-> unwrap(leftover), reserved |-> unwrap(total)],
                       res  |-> Ok]
                 ELSE [self |-> self, res |-> Err("Overflow")]
        ELSE [self |-> self, res |-> Err("InsufficientFunds")]

AccountBalance_unreserve(self, amount) ==
    LET leftover == checked_sub(self.reserved, amount)
    IN  IF is_some(leftover)
        THEN LET total == checked_add(self.free, amount)
             IN  IF is_some(total)
                 THEN [self |-> [free |-> unwrap(total), reserved |-> unwrap(leftover)],
                       res  |-> Ok]
                 ELSE [self |-> self, res |-> Err("Overflow")]
        ELSE [self |-> self, res |-> Err("InsufficientFunds")]

\* A can_transfer that checks for underflow only, not for the floor.
AccountBalance_can_transfer_no_floor(self, amount) ==
    IF is_some(checked_sub(self.free, amount)) THEN Ok ELSE Err("InsufficientFunds")

AccountBalance_can_transfer(self, amount) ==
    LET leftover == checked_sub(self.free, amount)
    IN  IF is_some(leftover)
           /\ (unwrap(leftover) >= MinimumBalance \/ unwrap(leftover) = 0)
        THEN Ok
        ELSE Err("InsufficientFunds")

\* A transfer that reports success without debiting the free balance.
AccountBalance_transfer_no_debit(self, amount) ==
    LET leftover == checked_sub(self.free, amount)
    IN  IF is_some(leftover)
           /\ (unwrap(leftover) >= MinimumBalance \/ unwrap(leftover) = 0)
        THEN [self |-> self, res |-> Ok]
        ELSE [self |-> self, res |-> Err("InsufficientFunds")]

AccountBalance_transfer(self, amount) ==
    LET leftover == checked_sub(self.free, amount)
    IN  IF is_some(leftover)
           /\ (unwrap(leftover) >= MinimumBalance \/ unwrap(leftover) = 0)
        THEN [self |-> [self EXCEPT !.free = unwrap(leftover)], res |-> Ok]
        ELSE [self |-> self, res |-> Err("InsufficientFunds")]

\* A can_receive that checks for overflow only, not for the floor.
AccountBalance_can_receive_no_floor(self, amount) ==
    IF is_some(checked_add(self.free, amount)) THEN Ok ELSE Err("Overflow")

AccountBalance_can_receive(self, amount) ==
    LET n == checked_add(self.free, amount)
    IN  IF ~is_some(n) THEN Err("Overflow")
        ELSE IF unwrap(n) >= MinimumBalance THEN Ok
        ELSE Err("InsufficientFunds")

AccountBalance_receive(self, amount) ==
    LET n == checked_add(self.free, amount)
    IN  IF ~is_some(n) THEN [self |-> self, res |-> Err("Overflow")]
        ELSE IF unwrap(n) < MinimumBalance
        THEN [self |-> [self EXCEPT !.free = unwrap(n)], res |-> Err("InsufficientFunds")]
        ELSE [self |-> [self EXCEPT !.free = unwrap(n)], res |-> Ok]

----------------------------------------------------------------------------
(* currency_module::Module: each operator returns the store as the call    *)
(* leaves it (st) and the call's result (res).                             *)

Return(s, r) == [st |-> s, res |-> r]

\* A destination side that creates a new account without the floor check.
transfer_dest_side_no_floor(s, dest, amount) ==
    IF BalancesMap_exists(s, dest)
    THEN LET dest_read == unwrap(BalancesMap_get(s, dest))
             can_receive == AccountBalance_can_receive(dest_read, amount)
         IN  IF can_receive # Ok THEN [self |-> dest_read, res |-> can_receive]
             ELSE [self |-> AccountBalance_receive(dest_read, amount).self, res |-> Ok]
    ELSE [self |-> [free |-> amount, reserved |-> 0], res |-> Ok]

\* The destination's side of transfer: the record to commit for `dest`, or
\* the error that rejects the transfer.
transfer_dest_side(s, dest, amount) ==
    IF BalancesMap_exists(s, dest)
    THEN LET dest_read == unwrap(BalancesMap_get(s, dest))
             can_receive == AccountBalance_can_receive(dest_read, amount)
         IN  IF can_receive # Ok THEN [self |-> dest_read, res |-> can_receive]
             ELSE [self |-> AccountBalance_receive(dest_read, amount).self, res |-> Ok]
    ELSE IF amount < MinimumBalance
         THEN [self |-> [free |-> amount, reserved |-> 0], res |-> Err("InsufficientFunds")]
         ELSE [self |-> [free |-> amount, reserved |-> 0], res |-> Ok]

\* A transfer that commits the sender's debit before it checks the
\* destination.
Module_transfer_debits_first(s, sender, dest, amount) ==
    IF ~BalancesMap_exists(s, sender) THEN Return(s, Err("DoesNotExist"))
    ELSE
    LET sender_read == unwrap(BalancesMap_get(s, sender))
        debit == AccountBalance_transfer(sender_read, amount)
    IN  IF debit.res # Ok THEN Return(s, debit.res)
        ELSE
        LET s1 == BalancesMap_set(s, sender, debit.self)
            dest_side == transfer_dest_side(s1, dest, amount)
        IN  IF dest_side.res # Ok THEN Return(s1, dest_side.res)
            ELSE Return(BalancesMap_set(s1, dest, dest_side.self), Ok)

Module_transfer(s, sender, dest, amount) ==
    IF ~BalancesMap_exists(s, sender) THEN Return(s, Err("DoesNotExist"))
    ELSE
    LET sender_read == unwrap(BalancesMap_get(s, sender))
        can_transfer == AccountBalance_can_transfer(sender_read, amount)
    IN  IF can_transfer # Ok THEN Return(s, can_transfer)
        ELSE
        LET sender_account_balance == AccountBalance_transfer(sender_read, amount).self
            dest_side == transfer_dest_side(s, dest, amount)
            dest_account_balance == dest_side.self
        IN  IF dest_side.res # Ok THEN Return(s, dest_side.res)
            ELSE
            LET s1 == BalancesMap_mutate(s, sender,
                          closure_set(BalancesMap_get(s, sender),
                                      Some(sender_account_balance)))
                s2 == BalancesMap_mutate(s1, dest,
                          closure_set(BalancesMap_get(s1, dest),
                                      Some(dest_account_balance)))
            IN  Return(s2, Ok)

\* A transfer_all that, like transfer, creates a destination that is absent.
Module_transfer_all_creates_dest(s, sender, dest) ==
    IF ~BalancesMap_exists(s, sender) THEN Return(s, Err("DoesNotExist"))
    ELSE
    LET sender_read == unwrap(BalancesMap_get(s, sender))
        dest_side == transfer_dest_side(s, dest, sender_read.free)
    IN  IF dest_side.res # Ok THEN Return(s, dest_side.res)
        ELSE Return(BalancesMap_set(BalancesMap_set(s, sender,
                                        [sender_read EXCEPT !.free = 0]),
                                    dest, dest_side.self),
                    Ok)

\* A transfer_all that removes the sender's record once it is empty.
Module_transfer_all_destroys_sender(s, sender, dest) ==
    IF ~BalancesMap_exists(s, sender) \/ ~BalancesMap_exists(s, dest)
    THEN Return(s, Err("DoesNotExist"))
    ELSE
    LET sender_read == unwrap(BalancesMap_get(s, sender))
        dest_read == unwrap(BalancesMap_get(s, dest))
        can_receive == AccountBalance_can_receive(dest_read, dest_read.free)
    IN  IF can_receive # Ok THEN Return(s, can_receive)
        ELSE
        LET s1 == IF sender_read.reserved = 0
                  THEN BalancesMap_clear(s, sender)
                  ELSE BalancesMap_set(s, sender, [sender_read EXCEPT !.free = 0])
        IN  Return(BalancesMap_set(s1, dest,
                       AccountBalance_receive(dest_read, dest_read.free).self),
                   Ok)

Module_transfer_all(s, sender, dest) ==
    IF ~BalancesMap_exists(s, sender) THEN Return(s, Err("DoesNotExist"))
    ELSE
    LET sender_read == unwrap(BalancesMap_get(s, sender))
        can_transfer == AccountBalance_can_transfer(sender_read, sender_read.free)
    IN  IF can_transfer # Ok THEN Return(s, can_transfer)
        ELSE
        LET sender_account_balance ==
                AccountBalance_transfer(sender_read, sender_read.free).self
        IN  IF ~BalancesMap_exists(s, dest) THEN Return(s, Err("DoesNotExist"))
            ELSE
            LET dest_read == unwrap(BalancesMap_get(s, dest))
                can_receive == AccountBalance_can_receive(dest_read, dest_read.free)
            IN  IF can_receive # Ok THEN Return(s, can_receive)
                ELSE
                LET dest_account_balance ==
                        AccountBalance_receive(dest_read, dest_read.free).self
                    s1 == BalancesMap_mutate(s, sender,
                        closure_set(BalancesMap_get(s, sender),
                                    Some(sender_account_balance)))
                    s2 == BalancesMap_mutate(s1, dest,
                        closure_set(BalancesMap_get(s1, dest),
                                    Some(dest_account_balance)))
                IN  Return(s2, Ok)

\* A mint that any sender may dispatch.
Module_mint_by_anyone(s, sender, who, amount) ==
    IF ~BalancesMap_exists(s, who)
    THEN Return(BalancesMap_set(TotalIssuance_set(s, amount), who,
                                [free |-> amount, reserved |-> 0]),
                Ok)
    ELSE Return(s, Ok)

\* A mint that adds the amount to TotalIssuance instead of replacing it.
Module_mint_adds_issuance(s, sender, who, amount) ==
    IF sender # Minter THEN Return(s, Err("NotAllowed"))
    ELSE IF ~BalancesMap_exists(s, who)
    THEN LET old == TotalIssuance_get(s)
             issued == (IF is_some(old) THEN unwrap(old) ELSE 0) + amount
         IN  Return(BalancesMap_set(TotalIssuance_set(s, issued), who,
                                    [free |-> amount, reserved |-> 0]),
                    Ok)
    ELSE Return(s, Ok)

\* A mint that credits a destination that exists.
Module_mint_credits_existing(s, sender, who, amount) ==
    IF sender # Minter THEN Return(s, Err("NotAllowed"))
    ELSE IF ~BalancesMap_exists(s, who)
    THEN Return(BalancesMap_set(TotalIssuance_set(s, amount), who,
                                [free |-> amount, reserved |-> 0]),
                Ok)
    ELSE LET who_read == unwrap(BalancesMap_get(s, who))
         IN  Return(BalancesMap_set(s, who,
                        [who_read EXCEPT !.free = (who_read.free + amount) % (MaxBalance + 1)]),
                    Ok)

\* A mint that sets TotalIssuance whether or not the destination exists.
Module_mint_issues_always(s, sender, who, amount) ==
    IF sender # Minter THEN Return(s, Err("NotAllowed"))
    ELSE IF ~BalancesMap_exists(s, who)
    THEN Return(BalancesMap_set(TotalIssuance_set(s, amount), who,
                                [free |-> amount, reserved |-> 0]),
                Ok)
    ELSE Return(TotalIssuance_set(s, amount), Ok)

Module_mint(s, sender, who, amount) ==
    IF sender # Minter THEN Return(s, Err("NotAllowed"))
    ELSE IF ~BalancesMap_exists(s, who)
    THEN LET s1 == TotalIssuance_set(s, amount)
             new_account_balance == [free |-> amount, reserved |-> 0]
             s2 == BalancesMap_mutate(s1, who,
                        closure_set(BalancesMap_get(s1, who),
                                    Some(new_account_balance)))
         IN  Return(s2, Ok)
    ELSE Return(s, Ok)

\* A reserve that works on a default record when the account is absent.
Module_reserve_default_record(s, from, amount) ==
    LET reserve_read == IF BalancesMap_exists(s, from)
                        THEN unwrap(BalancesMap_get(s, from))
                        ELSE [free |-> 0, reserved |-> 0]
        reserve_account_balance == AccountBalance_reserve(reserve_read, amount).self
    IN  Return(BalancesMap_set(s, from, reserve_account_balance), Ok)

Module_reserve(s, from, amount) ==
    IF ~BalancesMap_exists(s, from) THEN Return(s, Err("DoesNotExist"))
    ELSE
    LET reserve_read == unwrap(BalancesMap_get(s, from))
        \* the result of AccountBalance::reserve is dropped by unwrap_or_default
        reserve_account_balance == AccountBalance_reserve(reserve_read, amount).self
        s1 == BalancesMap_mutate(s, from,
                        closure_set(BalancesMap_get(s, from),
                                    Some(reserve_account_balance)))
    IN  Return(s1, Ok)

Module_unreserve(s, from, amount) ==
    IF ~BalancesMap_exists(s, from) THEN Return(s, Err("DoesNotExist"))
    ELSE
    LET unreserve_read == unwrap(BalancesMap_get(s, from))
        \* the result of AccountBalance::unreserve is dropped by unwrap_or_default
        unreserve_account_balance == AccountBalance_unreserve(unreserve_read, amount).self
        s1 == BalancesMap_mutate(s, from,
                        closure_set(BalancesMap_get(s, from),
                                    Some(unreserve_account_balance)))
    IN  Return(s1, Ok)

\* impl CryptoCurrency for Module
CryptoCurrency_transfer(s, from, to, amount) == Module_transfer(s, from, to, amount)

CryptoCurrency_reserve(s, from, amount) == Module_reserve(s, from, amount)

\* A balance query came back with a value.
Returned == [tag |-> "Returned", module_id |-> "", reason |-> ""]

\* A balance query unwrapped a None: the calling thread panics.
Panicked == [tag |-> "Panicked", module_id |-> "", reason |-> ""]

\* The outcome of a query: the store, how it ended and the value returned.
Answer(s, r, v) == [st |-> s, res |-> r, val |-> v]

CryptoCurrency_free_balance(s, of) ==
    LET account == BalancesMap_get(s, of)
    IN  IF is_some(account)
        THEN Answer(s, Returned, Some(unwrap(account).free))
        ELSE Answer(s, Panicked, None)

CryptoCurrency_reserved_balance(s, of) ==
    LET account == BalancesMap_get(s, of)
    IN  IF is_some(account)
        THEN Answer(s, Returned, Some(unwrap(account).reserved))
        ELSE Answer(s, Panicked, None)

----------------------------------------------------------------------------
(* staking_module::Module and the dispatch of the call enums.              *)

\* A bond that reports success without reserving anything.
Module_bond_no_reserve(s, sender, amount) ==
    IF ~BalancesMap_exists(s, sender) THEN Return(s, Err("DoesNotExist"))
    ELSE Return(s, Ok)

Module_bond(s, sender, amount) ==
    IF ~BalancesMap_exists(s, sender) THEN Return(s, Err("DoesNotExist"))
    ELSE LET r == Module_reserve(s, sender, amount)
         IN  IF r.res # Ok THEN Return(r.st, r.res) ELSE Return(r.st, Ok)

\* impl Dispatchable for currency_module::Call
Currency_dispatch(s, c, sender) ==
    CASE c.op = "Mint"        -> Module_mint(s, sender, c.dest, c.amount)
      [] c.op = "Transfer"    -> Module_transfer(s, sender, c.dest, c.amount)
      [] c.op = "TransferAll" -> Module_transfer_all(s, sender, c.dest)

\* impl Dispatchable for staking_module::Call
Staking_dispatch(s, c, sender) ==
    CASE c.op = "Bond" -> Module_bond(s, sender, c.amount)

\* An outer dispatch that replaces the module's error by one of its own.
RuntimeCall_dispatch_wraps_error(s, c, sender) ==
    LET out == CASE c.variant = "Currency" -> Currency_dispatch(s, c, sender)
                 [] c.variant = "Staking"  -> Staking_dispatch(s, c, sender)
    IN  IF out.res = Ok THEN out
        ELSE Return(out.st, [tag |-> "Other", module_id |-> "", reason |-> "runtime"])

\* impl Dispatchable for RuntimeCall
RuntimeCall_dispatch(s, c, sender) ==
    CASE c.variant = "Currency" -> Currency_dispatch(s, c, sender)
      [] c.variant = "Staking"  -> Staking_dispatch(s, c, sender)

----------------------------------------------------------------------------
(* The state machine: one action per call a client of the runtime makes.   *)

Init ==
    /\ storage = EmptyStorage
    /\ pre = EmptyStorage
    /\ call = [op |-> "none", sender |-> Minter, dest |-> Minter, amount |-> 0]
    /\ result = Ok
    /\ nCalls = 0
    /\ clean = TRUE
    /\ observed = FALSE
    /\ returned = None

\* Another call can be made.
Ready == ~observed

\* The call `c` returned `out` on the current store: it is one more call of
\* the setup, or it is the observed call.
Completed(c, out) ==
    /\ storage' = out.st
    /\ returned' = None
    /\ clean' = (/\ clean
                 /\ out.res = Ok
                 /\ ~(c.op = "Mint" /\ BalancesMap_exists(storage, c.dest)))
    /\ \/ /\ nCalls < MaxSetup
          /\ nCalls' = nCalls + 1
          /\ observed' = FALSE
          /\ UNCHANGED <<pre, call, result>>
       \/ /\ observed' = TRUE
          /\ pre' = storage /\ call' = c /\ result' = out.res
          /\ UNCHANGED nCalls

\* RuntimeCall::Currency(Call::Mint { dest, amount }).dispatch(sender)
Mint(sender, dest, amount) ==
    /\ Ready
    /\ Completed([op |-> "Mint", sender |-> sender, dest |-> dest, amount |-> amount],
              RuntimeCall_dispatch(storage,
                  [variant |-> "Currency", op |-> "Mint", dest |-> dest, amount |-> amount],
                  sender))

\* RuntimeCall::Currency(Call::Transfer { dest, amount }).dispatch(sender)
Transfer(sender, dest, amount) ==
    /\ Ready
    /\ Completed([op |-> "Transfer", sender |-> sender, dest |-> dest, amount |-> amount],
              RuntimeCall_dispatch(storage,
                  [variant |-> "Currency", op |-> "Transfer", dest |-> dest, amount |-> amount],
                  sender))

\* RuntimeCall::Currency(Call::TransferAll { dest }).dispatch(sender)
TransferAll(sender, dest) ==
    /\ Ready
    /\ Completed([op |-> "TransferAll", sender |-> sender, dest |-> dest, amount |-> 0],
              RuntimeCall_dispatch(storage,
                  [variant |-> "Currency", op |-> "TransferAll", dest |-> dest],
                  sender))

\* RuntimeCall::Staking(Call::Bond { amount }).dispatch(sender)
Bond(sender, amount) ==
    /\ Ready
    /\ Completed([op |-> "Bond", sender |-> sender, dest |-> sender, amount |-> amount],
              RuntimeCall_dispatch(storage,
                  [variant |-> "Staking", op |-> "Bond", amount |-> amount],
                  sender))

\* currency_module::Module::reserve(from, amount)
Reserve(from, amount) ==
    /\ Ready
    /\ Completed([op |-> "reserve", sender |-> from, dest |-> from, amount |-> amount],
              Module_reserve(storage, from, amount))

\* currency_module::Module::unreserve(from, amount)
Unreserve(from, amount) ==
    /\ Ready
    /\ Completed([op |-> "unreserve", sender |-> from, dest |-> from, amount |-> amount],
              Module_unreserve(storage, from, amount))

\* The query `c` answered `out` on the current store.  A query leaves the
\* store as it is, so it is made as the observed call only.
Queried(c, out) ==
    /\ storage' = out.st
    /\ observed' = TRUE
    /\ pre' = storage /\ call' = c
    /\ result' = out.res /\ returned' = out.val
    /\ UNCHANGED <<nCalls, clean>>

\* <currency_module::Module as CryptoCurrency>::free_balance(of)
FreeBalance(of) ==
    /\ Ready
    /\ Queried([op |-> "free_balance", sender |-> of, dest |-> of, amount |-> 0],
             CryptoCurrency_free_balance(storage, of))

\* <currency_module::Module as CryptoCurrency>::reserved_balance(of)
ReservedBalance(of) ==
    /\ Ready
    /\ Queried([op |-> "reserved_balance", sender |-> of, dest |-> of, amount |-> 0],
             CryptoCurrency_reserved_balance(storage, of))

Next ==
    \/ \E sender \in AccountIds, dest \in AccountIds, amount \in Amounts :
           Mint(sender, dest, amount)
    \/ \E sender \in AccountIds, dest \in AccountIds, amount \in Amounts :
           Transfer(sender, dest, amount)
    \/ \E sender \in AccountIds, dest \in AccountIds : TransferAll(sender, dest)
    \/ \E sender \in AccountIds, amount \in Amounts : Bond(sender, amount)
    \/ \E from \in AccountIds, amount \in Amounts : Reserve(from, amount)
    \/ \E from \in AccountIds, amount \in Amounts : Unreserve(from, amount)
    \/ \E of \in AccountIds : FreeBalance(of)
    \/ \E of \in AccountIds : ReservedBalance(of)

Spec == Init /\ [][Next]_vars

----------------------------------------------------------------------------
(* The typed storage layer on its own: the calls that the modules make on  *)
(* BalancesMap (a StorageMap) and on TotalIssuance (a StorageValue), in    *)
(* any order and with any argument.                                        *)

\* Keys of the map: the minter, alice, and an id of which the encoding has
\* two non-zero bytes.
StorageKeys == {Minter, 7, 258}

\* Records written to BalancesMap.
StoredAccounts ==
    {[free |-> MinimumBalance, reserved |-> 2], [free |-> MaxBalance, reserved |-> 0]}

\* Values written to TotalIssuance.
StoredBalances == {2, MaxBalance}

\* Option<V> for the values V of S.
Options(S) == {None} \cup {Some(v) : v \in S}

\* The closures given to mutate, as the value they leave for the one they
\* are given: `*maybe_v = None`, one that leaves maybe_v alone,
\* `*maybe_v = Some(v)`, and one that removes what is there and creates
\* what is not.
Closures(S) ==
    {[maybe_v \in Options(S) |-> None], [maybe_v \in Options(S) |-> maybe_v]}
        \cup {[maybe_v \in Options(S) |-> Some(v)] : v \in S}
        \cup {[maybe_v \in Options(S) |-> IF is_some(maybe_v) THEN None ELSE Some(v)]
                  : v \in S}

StorageInit ==
    /\ storage = EmptyStorage
    /\ pre = EmptyStorage
    /\ call = [op |-> "none", key |-> Minter, arg |-> None,
               f |-> closure_set(None, None)]
    /\ result = Ok
    /\ nCalls = 0
    /\ clean = TRUE
    /\ observed = FALSE
    /\ returned = None

\* The storage call `c` left the store `st`: it is one more call of the
\* setup, or it is the observed call.
Stored(c, st) ==
    /\ storage' = st
    /\ UNCHANGED <<clean, result, returned>>
    /\ \/ /\ nCalls < MaxSetup
          /\ nCalls' = nCalls + 1
          /\ observed' = FALSE
          /\ UNCHANGED <<pre, call>>
       \/ /\ observed' = TRUE
          /\ pre' = storage /\ call' = c
          /\ UNCHANGED nCalls

\* BalancesMap::<T>::set(key, value)
SetAccount(key, value) ==
    /\ Ready
    /\ Stored([op |-> "BalancesMap::set", key |-> key, arg |-> Some(value),
               f |-> closure_set(None, None)],
              BalancesMap_set(storage, key, value))

\* BalancesMap::<T>::clear(key)
ClearAccount(key) ==
    /\ Ready
    /\ Stored([op |-> "BalancesMap::clear", key |-> key, arg |-> None,
               f |-> closure_set(None, None)],
              BalancesMap_clear(storage, key))

\* BalancesMap::<T>::mutate(key, f)
MutateAccount(key, f) ==
    /\ Ready
    /\ Stored([op |-> "BalancesMap::mutate", key |-> key, arg |-> None, f |-> f],
              BalancesMap_mutate(storage, key, f))

\* TotalIssuance::<T>::set(new_value)
SetIssuance(new_value) ==
    /\ Ready
    /\ Stored([op |-> "TotalIssuance::set", key |-> Minter, arg |-> Some(new_value),
               f |-> closure_set(None, None)],
              TotalIssuance_set(storage, new_value))

\* TotalIssuance::<T>::clear()
ClearIssuance ==
    /\ Ready
    /\ Stored([op |-> "TotalIssuance::clear", key |-> Minter, arg |-> None,
               f |-> closure_set(None, None)],
              TotalIssuance_clear(storage))

\* TotalIssuance::<T>::mutate(f)
MutateIssuance(f) ==
    /\ Ready
    /\ Stored([op |-> "TotalIssuance::mutate", key |-> Minter, arg |-> None, f |-> f],
              TotalIssuance_mutate(storage, f))

StorageNext ==
    \/ \E key \in StorageKeys, value \in StoredAccounts : SetAccount(key, value)
    \/ \E key \in StorageKeys : ClearAccount(key)
    \/ \E key \in StorageKeys, f \in Closures(StoredAccounts) : MutateAccount(key, f)
    \/ \E new_value \in StoredBalances : SetIssuance(new_value)
    \/ ClearIssuance
    \/ \E f \in Closures(StoredBalances) : MutateIssuance(f)

StorageSpec == StorageInit /\ [][StorageNext]_vars

----------------------------------------------------------------------------
(* The ledger on a store that other code writes too: io_storage::set is a  *)
(* public function, so bytes that are not the encoding of an item's value  *)
(* can be under the item's raw key.                                        *)

\* The raw keys of the currency module's items.
RawKeys ==
    {BalancesMap_raw_storage_key(a) : a \in AccountIds} \cup {TotalIssuance_raw_storage_key}

\* Bytes of another format: three bytes, and a lone u64 (too short for an
\* AccountBalance).
ForeignValues == {<<1, 2, 3>>, Balance_encode(MinimumBalance)}

\* The amounts of the calls made on such a store.
RawAmounts == {2, MinimumBalance}

\* io_storage::set(key, value); it returns nothing, which is recorded as Ok.
IoSet(key, value) ==
    /\ Ready
    /\ Completed([op |-> "io_storage::set", sender |-> Minter, dest |-> Minter, amount |-> 0],
                 Return(io_set(storage, key, value), Ok))

RawNext ==
    \/ \E key \in RawKeys, value \in ForeignValues : IoSet(key, value)
    \/ \E sender \in AccountIds, dest \in AccountIds, amount \in RawAmounts :
           Mint(sender, dest, amount)
    \/ \E sender \in AccountIds, dest \in AccountIds, amount \in RawAmounts :
           Transfer(sender, dest, amount)
    \/ \E sender \in AccountIds, dest \in AccountIds : TransferAll(sender, dest)
    \/ \E sender \in AccountIds, amount \in RawAmounts : Bond(sender, amount)
    \/ \E from \in AccountIds, amount \in RawAmounts : Reserve(from, amount)
    \/ \E from \in AccountIds, amount \in RawAmounts : Unreserve(from, amount)

RawSpec == Init /\ [][RawNext]_vars

----------------------------------------------------------------------------
(* Vocabulary of the properties.                                           *)

\* The record of account a in store s (a must exist).
Acct(s, a) == unwrap(BalancesMap_get(s, a))

\* TotalIssuance::get().unwrap_or_default()
Issuance(s) ==
    LET t == TotalIssuance_get(s) IN IF is_some(t) THEN unwrap(t) ELSE 0

RECURSIVE SumOver(_, _)
SumOver(s, S) ==
    IF S = {} THEN 0
    ELSE LET a == CHOOSE x \in S : TRUE
         IN  (IF BalancesMap_exists(s, a)
              THEN Acct(s, a).free + Acct(s, a).reserved ELSE 0)
             + SumOver(s, S \ {a})

\* The sum of free + reserved over the accounts that exist in s.
SumOfBalances(s) == SumOver(s, AccountIds)

\* The error value a caller sees for a failed check of the currency module.
ModuleError(reason) ==
    [tag |-> "Module", module_id |-> "MOD_CURRENCY", reason |-> reason]

\* free - amt does not underflow and is 0 or at least the floor.
LeavesValidFree(free, amt) ==
    free >= amt /\ (free - amt = 0 \/ free - amt >= MinimumBalance)

Observed(op) == observed /\ call.op = op

----------------------------------------------------------------------------
(* C1..C10                                                                 *)

\* C1: Floor invariant.  From empty storage, after any sequence of completed
\* calls, every account record that exists has free = 0 or
\* free >= MinimumBalance.
C1_FloorInvariant ==
    \A a \in AccountIds :
        BalancesMap_exists(storage, a) =>
            (Acct(storage, a).free = 0 \/ Acct(storage, a).free >= MinimumBalance)

\* C2: Issuance invariant.  After every sequence of successfully completed
\* calls in which no Mint targets an already existing destination,
\* TotalIssuance equals the sum of free + reserved over all existing records.
C2_IssuanceInvariant ==
    clean => Issuance(storage) = SumOfBalances(storage)

\* C3: A Transfer between distinct accounts that returns Ok takes exactly
\* `amount` from the sender's free balance and adds exactly `amount` to the
\* destination's (creating an absent destination with free = amount,
\* reserved = 0), and leaves TotalIssuance as it was.
C3_TransferMovesAmount ==
    (Observed("Transfer") /\ call.sender # call.dest /\ result = Ok) =>
        /\ BalancesMap_exists(pre, call.sender)
        /\ BalancesMap_exists(storage, call.sender)
        /\ Acct(storage, call.sender).free = Acct(pre, call.sender).free - call.amount
        /\ BalancesMap_exists(storage, call.dest)
        /\ IF BalancesMap_exists(pre, call.dest)
           THEN Acct(storage, call.dest).free = Acct(pre, call.dest).free + call.amount
           ELSE Acct(storage, call.dest) = [free |-> call.amount, reserved |-> 0]
        /\ TotalIssuance_get(storage) = TotalIssuance_get(pre)

\* C3 witness: an observed successful transfer of a positive amount to an
\* account that did not exist.
C3_Witness ==
    /\ Observed("Transfer") /\ result = Ok
    /\ call.sender # call.dest /\ call.amount > 0
    /\ ~BalancesMap_exists(pre, call.dest)

\* C4: Transfer is all-or-nothing.  For every sender, dest and amount, either
\* it returns Ok and the sender's record shows the debit and the
\* destination's record shows the credit, or it returns an error and the
\* whole store is as before.
C4_TransferAllOrNothing ==
    Observed("Transfer") =>
        \/ /\ result # Ok
           /\ storage = pre
        \/ /\ result = Ok
           /\ BalancesMap_exists(pre, call.sender)
           /\ BalancesMap_exists(storage, call.sender)
           /\ BalancesMap_exists(storage, call.dest)
           /\ Acct(storage, call.sender).free
                  = Acct(pre, call.sender).free - call.amount
           /\ Acct(storage, call.dest).free
                  = (IF BalancesMap_exists(pre, call.dest)
                     THEN Acct(pre, call.dest).free ELSE 0) + call.amount

\* C5: For an existing sender, Transfer fails with InsufficientFunds whenever
\* sender.free - amount underflows or is neither 0 nor >= MinimumBalance,
\* whatever dest is, and the store is unchanged.
C5_TransferSenderShort ==
    (/\ Observed("Transfer")
     /\ BalancesMap_exists(pre, call.sender)
     /\ ~LeavesValidFree(Acct(pre, call.sender).free, call.amount)) =>
        /\ result = ModuleError("InsufficientFunds")
        /\ storage = pre

\* C5 witness: an observed transfer that would leave the sender a free
\* balance strictly between 0 and the floor.
C5_Witness ==
    /\ Observed("Transfer")
    /\ BalancesMap_exists(pre, call.sender)
    /\ Acct(pre, call.sender).free > call.amount
    /\ Acct(pre, call.sender).free - call.amount < MinimumBalance
    /\ result = ModuleError("InsufficientFunds")

\* C6: For an existing sender able to afford it, Transfer of an amount below
\* MinimumBalance to a dest that does not exist fails with InsufficientFunds
\* and dest still does not exist; a transfer never creates a record with free
\* below the floor.
C6_TransferNewDestFloor ==
    /\ (/\ Observed("Transfer")
        /\ BalancesMap_exists(pre, call.sender)
        /\ LeavesValidFree(Acct(pre, call.sender).free, call.amount)
        /\ ~BalancesMap_exists(pre, call.dest)
        /\ call.amount < MinimumBalance) =>
            /\ result = ModuleError("InsufficientFunds")
            /\ ~BalancesMap_exists(storage, call.dest)
            /\ storage = pre
    /\ (/\ Observed("Transfer")
        /\ ~BalancesMap_exists(pre, call.dest)
        /\ BalancesMap_exists(storage, call.dest)) =>
            Acct(storage, call.dest).free >= MinimumBalance

\* C6 witness: an observed transfer of a positive amount below the floor, by a
\* sender who can afford it, to an account that does not exist.
C6_Witness ==
    /\ Observed("Transfer")
    /\ BalancesMap_exists(pre, call.sender)
    /\ LeavesValidFree(Acct(pre, call.sender).free, call.amount)
    /\ ~BalancesMap_exists(pre, call.dest)
    /\ call.amount > 0 /\ call.amount < MinimumBalance
    /\ result = ModuleError("InsufficientFunds")

\* C7: For an existing sender passing the sender-side check and an existing
\* dest, Transfer fails with Overflow when dest.free + amount exceeds the
\* maximum Balance, fails with InsufficientFunds when dest.free + amount is
\* below MinimumBalance, and otherwise succeeds; the free balance stored for
\* dest is the true sum, never a wrapped one.
C7_TransferReceiveChecks ==
    (/\ Observed("Transfer")
     /\ BalancesMap_exists(pre, call.sender)
     /\ LeavesValidFree(Acct(pre, call.sender).free, call.amount)
     /\ BalancesMap_exists(pre, call.dest)) =>
        LET sum == Acct(pre, call.dest).free + call.amount
        IN  /\ result = (IF sum > MaxBalance THEN ModuleError("Overflow")
                         ELSE IF sum < MinimumBalance
                         THEN ModuleError("InsufficientFunds")
                         ELSE Ok)
            /\ result = Ok =>
                   /\ Acct(storage, call.dest).free = sum
                   /\ Acct(storage, call.dest).free <= MaxBalance
            /\ result # Ok => storage = pre

\* C7 witness: an observed transfer to an existing account rejected with
\* Overflow.
C7_Witness ==
    /\ Observed("Transfer")
    /\ BalancesMap_exists(pre, call.sender)
    /\ BalancesMap_exists(pre, call.dest)
    /\ Acct(pre, call.dest).free + call.amount > MaxBalance
    /\ result = ModuleError("Overflow")

\* C8: Transfer by a sender with no record fails with DoesNotExist for every
\* dest and amount; TransferAll fails with DoesNotExist whenever the sender
\* or the dest has no record; in both cases the store is unchanged and no
\* record is created.
C8_AbsentDoesNotExist ==
    /\ (Observed("Transfer") /\ ~BalancesMap_exists(pre, call.sender)) =>
           (result = ModuleError("DoesNotExist") /\ storage = pre)
    /\ (/\ Observed("TransferAll")
        /\ (~BalancesMap_exists(pre, call.sender) \/ ~BalancesMap_exists(pre, call.dest))) =>
           (result = ModuleError("DoesNotExist") /\ storage = pre)

\* C8 witness: an observed TransferAll by an existing sender to an account
\* that does not exist.
C8_Witness ==
    /\ Observed("TransferAll")
    /\ BalancesMap_exists(pre, call.sender)
    /\ Acct(pre, call.sender).free > 0
    /\ ~BalancesMap_exists(pre, call.dest)
    /\ result = ModuleError("DoesNotExist")

\* C9: For an existing account, reserve(acct, amt) and Bond{amt} by acct
\* return InsufficientFunds unless free - amt does not underflow and is 0 or
\* >= MinimumBalance, and return Overflow when reserved + amt overflows.
C9_ReserveErrors ==
    (/\ (Observed("reserve") \/ Observed("Bond"))
     /\ BalancesMap_exists(pre, call.sender)) =>
        LET acct == Acct(pre, call.sender)
        IN  IF ~LeavesValidFree(acct.free, call.amount)
            THEN result = ModuleError("InsufficientFunds")
            ELSE (acct.reserved + call.amount > MaxBalance
                      => result = ModuleError("Overflow"))

\* C10: Whenever reserve(acct, amt) or Bond{amt} by acct returns Ok, the
\* account's record has free = old free - amt and reserved = old reserved +
\* amt, and no other record nor TotalIssuance changes.
C10_ReserveMovesAmount ==
    ((Observed("reserve") \/ Observed("Bond")) /\ result = Ok) =>
        /\ BalancesMap_exists(pre, call.sender)
        /\ BalancesMap_get(storage, call.sender)
               = Some([free     |-> Acct(pre, call.sender).free - call.amount,
                       reserved |-> Acct(pre, call.sender).reserved + call.amount])
        /\ \A a \in AccountIds \ {call.sender} :
               BalancesMap_get(storage, a) = BalancesMap_get(pre, a)
        /\ TotalIssuance_get(storage) = TotalIssuance_get(pre)

----------------------------------------------------------------------------
(* C11..C20                                                                *)

\* C11: For an existing account, unreserve(acct, amt) returns
\* InsufficientFunds if reserved < amt, else Overflow if free + amt
\* overflows, else Ok with free' = free + amt and reserved' = reserved - amt;
\* on either error the record is unchanged.
C11_UnreserveReference ==
    (Observed("unreserve") /\ BalancesMap_exists(pre, call.sender)) =>
        LET acct == Acct(pre, call.sender)
        IN  IF acct.reserved < call.amount
            THEN /\ result = ModuleError("InsufficientFunds")
                 /\ BalancesMap_get(storage, call.sender) = Some(acct)
            ELSE IF acct.free + call.amount > MaxBalance
            THEN /\ result = ModuleError("Overflow")
                 /\ BalancesMap_get(storage, call.sender) = Some(acct)
            ELSE /\ result = Ok
                 /\ BalancesMap_get(storage, call.sender)
                        = Some([free     |-> acct.free + call.amount,
                                reserved |-> acct.reserved - call.amount])

\* C12: reserve(acct, amt), unreserve(acct, amt) and Bond{amt} by acct fail
\* with the module error DoesNotExist when acct has no record, for every amt,
\* and they never create a record for acct.
C12_ReserveAbsentDoesNotExist ==
    /\ (/\ (Observed("reserve") \/ Observed("unreserve") \/ Observed("Bond"))
        /\ ~BalancesMap_exists(pre, call.sender)) =>
            /\ result = ModuleError("DoesNotExist")
            /\ storage = pre
    /\ (Observed("reserve") \/ Observed("unreserve") \/ Observed("Bond")) =>
           (BalancesMap_exists(storage, call.sender)
                => BalancesMap_exists(pre, call.sender))

\* C12 witness: an observed reserve of a positive amount on an account that
\* has no record, while another account has one.
C12_Witness ==
    /\ Observed("reserve")
    /\ ~BalancesMap_exists(pre, call.sender)
    /\ \E a \in AccountIds : BalancesMap_exists(pre, a)
    /\ call.amount > 0
    /\ result = ModuleError("DoesNotExist")

\* C13: For every sender that has an account and every amount, Bond{amount}
\* dispatched by sender yields the same result and the same post-state as the
\* currency capability's reserve(sender, amount) run from the same pre-state.
C13_BondIsReserve ==
    (Observed("Bond") /\ BalancesMap_exists(pre, call.sender)) =>
        /\ result = CryptoCurrency_reserve(pre, call.sender, call.amount).res
        /\ storage = CryptoCurrency_reserve(pre, call.sender, call.amount).st

\* C13 witness: an observed Bond of a positive amount by an existing account
\* that changed the account's record.
C13_Witness ==
    /\ Observed("Bond")
    /\ BalancesMap_exists(pre, call.sender)
    /\ call.amount > 0
    /\ Acct(storage, call.sender).reserved
           = Acct(pre, call.sender).reserved + call.amount

\* C14: For distinct existing accounts sender and dest, a TransferAll{dest}
\* by sender that returns Ok sends the sender's entire free balance:
\* afterwards sender.free = 0 and dest.free = old dest.free + old
\* sender.free, so the sum of all balances is unchanged; the receive-side
\* checks are applied to the amount old sender.free.
C14_TransferAllSendsAll ==
    (/\ Observed("TransferAll")
     /\ call.sender # call.dest
     /\ BalancesMap_exists(pre, call.sender)
     /\ BalancesMap_exists(pre, call.dest)) =>
        LET sum == Acct(pre, call.dest).free + Acct(pre, call.sender).free
        IN  /\ result = Ok =>
                   /\ Acct(storage, call.sender).free = 0
                   /\ Acct(storage, call.dest).free = sum
                   /\ SumOfBalances(storage) = SumOfBalances(pre)
            /\ sum > MaxBalance => result = ModuleError("Overflow")
            /\ sum < MinimumBalance => result = ModuleError("InsufficientFunds")

\* C15: After a successful TransferAll{dest} by sender, the sender's record
\* still exists with free = 0 and its reserved balance as before the call;
\* dest's reserved balance is also unchanged.
C15_TransferAllKeepsSender ==
    (Observed("TransferAll") /\ result = Ok) =>
        /\ BalancesMap_exists(storage, call.sender)
        /\ Acct(storage, call.sender).free = 0
        /\ Acct(storage, call.sender).reserved = Acct(pre, call.sender).reserved
        /\ Acct(storage, call.dest).reserved = Acct(pre, call.dest).reserved

\* C16: TransferAll{dest} dispatched by a sender whose reserved balance is
\* non-zero is not allowed: it returns the error NotAllowed and leaves the
\* store unchanged.
C16_TransferAllReservedNotAllowed ==
    (/\ Observed("TransferAll")
     /\ BalancesMap_exists(pre, call.sender)
     /\ Acct(pre, call.sender).reserved > 0) =>
        /\ result = ModuleError("NotAllowed")
        /\ storage = pre

\* C17: Mint{dest, amount} dispatched by any sender other than the Minter
\* fails with the module error NotAllowed for every dest and amount, and
\* leaves every account record and TotalIssuance unchanged.
C17_MintNotAllowed ==
    (Observed("Mint") /\ call.sender # Minter) =>
        /\ result = ModuleError("NotAllowed")
        /\ \A a \in AccountIds :
               BalancesMap_get(storage, a) = BalancesMap_get(pre, a)
        /\ TotalIssuance_get(storage) = TotalIssuance_get(pre)
        /\ storage = pre

\* C17 witness: an observed Mint of a positive amount to an absent account by
\* a sender that is not the Minter.
C17_Witness ==
    /\ Observed("Mint")
    /\ call.sender # Minter
    /\ ~BalancesMap_exists(pre, call.dest)
    /\ call.amount > 0
    /\ result = ModuleError("NotAllowed")

C20_MintIncreasesIssuance ==
    (Observed("Mint") /\ result = Ok) =>
        /\ Issuance(storage) = Issuance(pre) + call.amount
        /\ BalancesMap_exists(storage, call.dest)
        /\ BalancesMap_exists(pre, call.dest) =>
               Acct(storage, call.dest).free
                   = Acct(pre, call.dest).free + call.amount

----------------------------------------------------------------------------
(* C21..C30                                                                *)

\* C21: Mint{dest, amount} dispatched by the Minter fails with
\* InsufficientFunds when dest's resulting free balance would not reach
\* MinimumBalance (a new dest with 0 < amount < MinimumBalance), and fails
\* with Overflow when the arithmetic overflows; in those cases no account is
\* created or changed.
C21_MintChecks ==
    (Observed("Mint") /\ call.sender = Minter) =>
        LET old == IF BalancesMap_exists(pre, call.dest)
                   THEN Acct(pre, call.dest).free ELSE 0
        IN  /\ (old + call.amount > 0 /\ old + call.amount < MinimumBalance) =>
                   (result = ModuleError("InsufficientFunds") /\ storage = pre)
            /\ (old + call.amount > MaxBalance
                    \/ Issuance(pre) + call.amount > MaxBalance) =>
                   (result = ModuleError("Overflow") /\ storage = pre)

\* C22: free_balance(acct) and reserved_balance(acct) are pure reads: for an
\* existing account they return Some(free) / Some(reserved) of the stored
\* record, for an account with no record they return None and do not abort,
\* and in every case the store is unchanged.
C22_BalanceReads ==
    /\ Observed("free_balance") =>
           /\ result = Returned
           /\ returned = (IF BalancesMap_exists(pre, call.sender)
                          THEN Some(Acct(pre, call.sender).free) ELSE None)
           /\ storage = pre
    /\ Observed("reserved_balance") =>
           /\ result = Returned
           /\ returned = (IF BalancesMap_exists(pre, call.sender)
                          THEN Some(Acct(pre, call.sender).reserved) ELSE None)
           /\ storage = pre

\* C23: For every pre-state, sender and inner call c,
\* RuntimeCall::Currency(c).dispatch(sender) and
\* RuntimeCall::Staking(c).dispatch(sender) produce the same result value and
\* the same post-state as dispatching c directly on its own module.
C23_RuntimeForwards ==
    /\ (Observed("Mint") \/ Observed("Transfer") \/ Observed("TransferAll")) =>
           /\ result = Currency_dispatch(pre, call, call.sender).res
           /\ storage = Currency_dispatch(pre, call, call.sender).st
    /\ Observed("Bond") =>
           /\ result = Staking_dispatch(pre, call, call.sender).res
           /\ storage = Staking_dispatch(pre, call, call.sender).st

\* C23 witness: an observed Transfer through the runtime that the currency
\* module rejected with InsufficientFunds.
C23_Witness ==
    /\ Observed("Transfer")
    /\ BalancesMap_exists(pre, call.sender)
    /\ call.amount > 0
    /\ result = ModuleError("InsufficientFunds")

\* The four reasons of the currency module's Error.
Reasons == {"DoesNotExist", "NotAllowed", "InsufficientFunds", "Overflow"}

\* C24: Module errors are never swallowed and are always tagged: whenever a
\* ledger check fails inside a dispatched call or capability operation, the
\* caller receives the Module error with module_id = MODULE_ID and a reason
\* among DoesNotExist, NotAllowed, InsufficientFunds, Overflow; the call never
\* returns Ok after a failed check and never returns the Other variant.
C24_ErrorsSurfaced ==
    (observed /\ call.op \notin {"free_balance", "reserved_balance"}) =>
        /\ result = Ok \/ \E reason \in Reasons : result = ModuleError(reason)
        /\ \A a \in {call.sender} :
               (call.op \in {"reserve", "Bond"} /\ BalancesMap_exists(pre, a)) =>
                   (AccountBalance_reserve(Acct(pre, a), call.amount).res # Ok
                        => result = AccountBalance_reserve(Acct(pre, a), call.amount).res)
        /\ \A a \in {call.sender} :
               (call.op = "unreserve" /\ BalancesMap_exists(pre, a)) =>
                   (AccountBalance_unreserve(Acct(pre, a), call.amount).res # Ok
                        => result = AccountBalance_unreserve(Acct(pre, a), call.amount).res)
        /\ (call.op # "Mint" /\ ~BalancesMap_exists(pre, call.sender)) =>
               result = ModuleError("DoesNotExist")
        /\ (call.op = "Mint" /\ call.sender # Minter) =>
               result = ModuleError("NotAllowed")

----------------------------------------------------------------------------
(* The storage layer (StorageSpec).                                        *)

\* The observed call is one on BalancesMap / on TotalIssuance.
OnAccount == observed /\ call.op \in {"BalancesMap::set", "BalancesMap::clear", "BalancesMap::mutate"}

OnIssuance == observed /\ call.op \in {"TotalIssuance::set", "TotalIssuance::clear", "TotalIssuance::mutate"}

\* C25: Typed storage read-after-write, for TotalIssuance and for every key
\* of BalancesMap: after set(v) get returns Some(v) and exists is true; after
\* clear get returns None and exists is false, and clear on an absent value
\* changes nothing; on a never-written item get returns None; and exists
\* always equals get().is_some().
C25_ReadAfterWrite ==
    /\ Observed("BalancesMap::set") =>
           /\ BalancesMap_get(storage, call.key) = call.arg
           /\ BalancesMap_exists(storage, call.key)
    /\ Observed("BalancesMap::clear") =>
           /\ BalancesMap_get(storage, call.key) = None
           /\ ~BalancesMap_exists(storage, call.key)
           /\ BalancesMap_get(pre, call.key) = None => storage = pre
    /\ Observed("TotalIssuance::set") =>
           /\ TotalIssuance_get(storage) = call.arg
           /\ TotalIssuance_exists(storage)
    /\ Observed("TotalIssuance::clear") =>
           /\ TotalIssuance_get(storage) = None
           /\ ~TotalIssuance_exists(storage)
           /\ TotalIssuance_get(pre) = None => storage = pre
    /\ storage = EmptyStorage =>
           /\ TotalIssuance_get(storage) = None
           /\ \A k \in StorageKeys : BalancesMap_get(storage, k) = None
    /\ TotalIssuance_exists(storage) = (TotalIssuance_get(storage) # None)
    /\ \A k \in StorageKeys :
           BalancesMap_exists(storage, k) = (BalancesMap_get(storage, k) # None)

\* C25 witness: an observed BalancesMap::set that replaced a different
\* record.
C25_Witness ==
    /\ Observed("BalancesMap::set")
    /\ BalancesMap_exists(pre, call.key)
    /\ BalancesMap_get(pre, call.key) # call.arg
    /\ BalancesMap_get(storage, call.key) = call.arg

\* C26: mutate, for TotalIssuance and BalancesMap: the closure is called
\* once with the current get() (None if absent, Some(v) if present); if it
\* leaves Some(v') the item is stored as v' (created if it was absent), if it
\* leaves None the item is removed: get() after mutate is the option the
\* closure left.
C26_MutateSemantics ==
    /\ Observed("BalancesMap::mutate") =>
           LET left == call.f[BalancesMap_get(pre, call.key)]
           IN  /\ BalancesMap_get(storage, call.key) = left
               /\ BalancesMap_exists(storage, call.key) = is_some(left)
               /\ left = None => storage = BalancesMap_clear(pre, call.key)
    /\ Observed("TotalIssuance::mutate") =>
           LET left == call.f[TotalIssuance_get(pre)]
           IN  /\ TotalIssuance_get(storage) = left
               /\ TotalIssuance_exists(storage) = is_some(left)
               /\ left = None => storage = TotalIssuance_clear(pre)

\* C26 witness: an observed BalancesMap::mutate whose closure was given
\* Some(v) and left None.
C26_Witness ==
    /\ Observed("BalancesMap::mutate")
    /\ BalancesMap_exists(pre, call.key)
    /\ call.f[None] # None
    /\ call.f[BalancesMap_get(pre, call.key)] = None

\* The bytes of the names and the 4-byte little-endian form of an id.
Bytes_BalancesMap == <<66, 97, 108, 97, 110, 99, 101, 115, 77, 97, 112>>

Bytes_TotalIssuance == <<84, 111, 116, 97, 108, 73, 115, 115, 117, 97, 110, 99, 101>>

LittleEndian4(k) ==
    <<k % 256, (k \div 256) % 256, (k \div 65536) % 256, (k \div 16777216) % 256>>

\* C27: Table key derivation: for every AccountId k, the raw key used by
\* BalancesMap for k is the bytes `BalancesMap`, then one underscore byte,
\* then the 4-byte little-endian encoding of k.
C27_KeyWithUnderscore ==
    /\ \A k \in StorageKeys :
           BalancesMap_exists(storage, k) =>
               Bytes_BalancesMap \o <<95>> \o LittleEndian4(k) \in DOMAIN storage
    /\ Observed("BalancesMap::set") =>
           BalancesMap_raw_storage_key(call.key)
               = Bytes_BalancesMap \o <<95>> \o LittleEndian4(call.key)

C29_IssuanceKey ==
    /\ TotalIssuance_raw_storage_key = Bytes_TotalIssuance
    /\ TotalIssuance_exists(storage) => Bytes_TotalIssuance \in DOMAIN storage
    /\ TotalIssuance_get(storage)
           = TotalIssuance_get([k \in DOMAIN storage \cap {Bytes_TotalIssuance}
                                   |-> storage[k]])
    /\ OnIssuance =>
           \A raw \in (DOMAIN storage \cup DOMAIN pre) \ {Bytes_TotalIssuance} :
               io_get(storage, raw) = io_get(pre, raw)
    /\ Observed("TotalIssuance::set") =>
           io_get(storage, Bytes_TotalIssuance) = Some(Balance_encode(unwrap(call.arg)))
    /\ Observed("TotalIssuance::clear") => Bytes_TotalIssuance \notin DOMAIN storage

\* C29 witness: an observed TotalIssuance::set on a store that holds account
\* records and no issuance.
C29_Witness ==
    /\ Observed("TotalIssuance::set")
    /\ \E k \in StorageKeys : BalancesMap_exists(pre, k)
    /\ ~TotalIssuance_exists(pre)
    /\ Bytes_TotalIssuance \in DOMAIN storage

\* C30: Key derivation is injective and items are isolated: distinct
\* AccountIds have distinct raw BalancesMap keys and none of them is the
\* TotalIssuance key, so set/clear/mutate on k1 never changes the value read
\* for another key k2 nor the TotalIssuance cell, and writing TotalIssuance
\* never changes an account record.
C30_KeysIsolated ==
    /\ \A k1, k2 \in StorageKeys :
           k1 # k2 => BalancesMap_raw_storage_key(k1) # BalancesMap_raw_storage_key(k2)
    /\ \A k \in StorageKeys :
           BalancesMap_raw_storage_key(k) # TotalIssuance_raw_storage_key
    /\ OnAccount =>
           /\ \A k2 \in StorageKeys \ {call.key} :
                  BalancesMap_get(storage, k2) = BalancesMap_get(pre, k2)
           /\ TotalIssuance_get(storage) = TotalIssuance_get(pre)
    /\ OnIssuance =>
           \A k \in StorageKeys : BalancesMap_get(storage, k) = BalancesMap_get(pre, k)

\* C30 witness: an observed BalancesMap::set on one key while another key
\* and TotalIssuance hold values.
C30_Witness ==
    /\ Observed("BalancesMap::set")
    /\ ~BalancesMap_exists(pre, call.key)
    /\ \E k2 \in StorageKeys \ {call.key} : BalancesMap_exists(pre, k2)
    /\ TotalIssuance_exists(pre)

----------------------------------------------------------------------------
(* C31..C37                                                                *)

\* The bytes under account a's raw key in s are there and are too short to
\* be an AccountBalance (two u64).
Undecodable(s, a) ==
    /\ Bytes_BalancesMap \o LittleEndian4(a) \in DOMAIN s
    /\ Len(s[Bytes_BalancesMap \o LittleEndian4(a)]) < 16

\* The store s without the account entries that do not decode.
WithoutUndecodable(s) ==
    [raw \in DOMAIN s \ {Bytes_BalancesMap \o LittleEndian4(a) :
                             a \in {x \in AccountIds : Undecodable(s, x)}}
        |-> s[raw]]

\* C31: When the bytes under an item's raw key do not decode to the item's
\* value type, get returns None and exists returns false, as for an item
\* never written; no error is raised; and the ledger treats such an account
\* as nonexistent: DoesNotExist for a sender, and a dest that can be created.
C31_DecodeFailureIsAbsence ==
    /\ \A a \in AccountIds :
           Undecodable(storage, a) =>
               /\ BalancesMap_get(storage, a) = None
               /\ ~BalancesMap_exists(storage, a)
    /\ (/\ Bytes_TotalIssuance \in DOMAIN storage
        /\ Len(storage[Bytes_TotalIssuance]) < 8) =>
           /\ TotalIssuance_get(storage) = None
           /\ ~TotalIssuance_exists(storage)
    /\ (/\ observed
        /\ call.op \in {"Transfer", "TransferAll", "Bond", "reserve", "unreserve"}
        /\ Undecodable(pre, call.sender)) =>
           /\ result = ModuleError("DoesNotExist")
           /\ storage = pre
    /\ (/\ observed
        /\ call.op \in {"Mint", "Transfer"}
        /\ Undecodable(pre, call.dest)) =>
           /\ result = RuntimeCall_dispatch(WithoutUndecodable(pre),
                           [variant |-> "Currency", op |-> call.op,
                            dest |-> call.dest, amount |-> call.amount],
                           call.sender).res
           /\ result = Ok =>
                  BalancesMap_get(storage, call.dest)
                      = Some([free |-> call.amount, reserved |-> 0])

\* C31 witness: an observed Transfer that created a destination under whose
\* raw key there were bytes that do not decode.
C31_Witness ==
    /\ Observed("Transfer")
    /\ Undecodable(pre, call.dest)
    /\ call.sender # call.dest
    /\ result = Ok
    /\ BalancesMap_exists(storage, call.dest)

\* C32: Self-transfer creates no funds: for every existing account a and
\* every amount, a Transfer{dest: a, amount} dispatched by a itself that
\* returns Ok leaves a's free and reserved balances, and so the sum of all
\* balances, as they were before the call.
C32_SelfTransferCreatesNothing ==
    (/\ Observed("Transfer")
     /\ call.sender = call.dest
     /\ BalancesMap_exists(pre, call.sender)
     /\ result = Ok) =>
        /\ BalancesMap_get(storage, call.sender) = BalancesMap_get(pre, call.sender)
        /\ SumOfBalances(storage) = SumOfBalances(pre)

\* Every account that exists in s has free = 0 or free >= MinimumBalance.
FloorHolds(s) ==
    \A a \in AccountIds :
        BalancesMap_exists(s, a) =>
            (Acct(s, a).free = 0 \/ Acct(s, a).free >= MinimumBalance)

\* C33: Transfer, TransferAll, reserve and Bond preserve the floor: if every
\* existing account has free = 0 or free >= MinimumBalance before the
\* operation, then every existing account has it after the operation (a dest
\* created by the transfer and the case sender = dest included), whether the
\* operation returned Ok or an error.
C33_FloorPreserved ==
    (/\ observed
     /\ call.op \in {"Transfer", "TransferAll", "reserve", "Bond"}
     /\ FloorHolds(pre)) => FloorHolds(storage)

\* C33 witness: on a store where the floor holds, an observed Transfer that
\* created its destination and left the sender with a positive balance.
C33_Witness ==
    /\ Observed("Transfer")
    /\ FloorHolds(pre)
    /\ result = Ok
    /\ ~BalancesMap_exists(pre, call.dest)
    /\ BalancesMap_exists(storage, call.dest)
    /\ Acct(storage, call.sender).free > 0

\* C34: For every RuntimeCall variant (Mint, Transfer, TransferAll, Bond),
\* sender and pre-state, a dispatch that returns Err leaves the whole byte
\* store, all account records and TotalIssuance, equal to the pre-state.
C34_ErrLeavesStore ==
    (/\ observed
     /\ call.op \in {"Mint", "Transfer", "TransferAll", "Bond"}
     /\ result # Ok) =>
        /\ storage = pre
        /\ \A a \in AccountIds : BalancesMap_get(storage, a) = BalancesMap_get(pre, a)
        /\ TotalIssuance_get(storage) = TotalIssuance_get(pre)

\* C34 witness: an observed Transfer that passed the sender's check and was
\* rejected on the destination's side.
C34_Witness ==
    /\ Observed("Transfer")
    /\ BalancesMap_exists(pre, call.sender)
    /\ call.amount > 0
    /\ LeavesValidFree(Acct(pre, call.sender).free, call.amount)
    /\ result # Ok

C37_TotalRepresentable ==
    \A a \in AccountIds :
        BalancesMap_exists(storage, a) =>
            Acct(storage, a).free + Acct(storage, a).reserved <= MaxBalance

====
